---- MODULE Spec2Model ----
(***************************************************************************)
(* Model of FilmScriptAnalyzer (src/lib/pdfscript.cjs): the screenplay     *)
(* parser parseScreenplay, the interaction builder                         *)
(* analyzeCharacterInteractions and the entry runCompleteAnalysis.         *)
(*                                                                         *)
(* A JavaScript string is a sequence of one-character strings, so that     *)
(* trim, split, the regular expressions and sort are computed on the       *)
(* characters as the code computes them.  null is the empty sequence where *)
(* the code only tests truthiness (currentScene, Scene_Characters,         *)
(* Scene_Dialogue); the text input carries an explicit isNull flag.        *)
(***************************************************************************)
EXTENDS Integers, Sequences, FiniteSets, TLC

VARIABLES text, pc, lines, i, currentScene, currentSceneAction,
          currentSceneCharacters, currentSceneDialogues, sceneNumber,
          scenes, dialogues, characters, movieCharacters, interactions,
          self, scriptName, pdfPath, result, req,
          now, uploads, outFiles, parked, nodeEnv

\* the analyzer that is running and its request: the fields of the
\* FilmScriptAnalyzer object, the locals of its methods, and the request
\* the server handles with it
analyzerVars == <<text, pc, lines, i, currentScene, currentSceneAction,
                  currentSceneCharacters, currentSceneDialogues, sceneNumber,
                  scenes, dialogues, characters, movieCharacters, interactions,
                  self, scriptName, pdfPath, result, req>>

\* what all analyzers and requests of the process share: the clock, the
\* uploads directory, the analysis_outputs directory, and the request that
\* waits at an await while this one runs, and process.env.NODE_ENV
sharedVars == <<now, uploads, outFiles, parked, nodeEnv>>

vars == <<analyzerVars, sharedVars>>

(***************************************************************************)
(* Bounds of the checked inputs.                                           *)
(***************************************************************************)
MaxLines == 4

MaxDialogueLines == 6

MaxEdgeLines == 3

\* the clock readings are 0..MaxTime
MaxTime == 1

(***************************************************************************)
(* Characters and character classes of the regular expressions.            *)
(***************************************************************************)
UpperSeq == <<"A","B","C","D","E","F","G","H","I","J","K","L","M",
              "N","O","P","Q","R","S","T","U","V","W","X","Y","Z">>

LowerSeq == <<"a","b","c","d","e","f","g","h","i","j","k","l","m",
              "n","o","p","q","r","s","t","u","v","w","x","y","z">>

DigitSeq == <<"0","1","2","3","4","5","6","7","8","9">>

Range(f) == {f[x] : x \in DOMAIN f}

Upper == Range(UpperSeq)

Lower == Range(LowerSeq)

Digit == Range(DigitSeq)

\* the en dash U+2013, the one character of the patterns outside ASCII
EnDash == "\\u2013"

\* \s of the regular expressions and the characters String.trim removes
WS == {" ", "\t"}

\* the UTF-16 code units, in increasing order, of the characters used
CodeOrder == <<"\t", "\n", " ", "'", "(", ")", "-", ".">> \o DigitSeq
             \o <<":">> \o UpperSeq \o <<"_">> \o LowerSeq \o <<"|", EnDash>>

CodeOf(c) == CHOOSE n \in DOMAIN CodeOrder : CodeOrder[n] = c

\* String.toUpperCase on one character (the /i flag of the patterns)
ToUpperChar(c) ==
  IF c \in Lower THEN UpperSeq[CHOOSE n \in 1..26 : LowerSeq[n] = c] ELSE c

ToUpper(s) == [n \in 1..Len(s) |-> ToUpperChar(s[n])]

\* the operator < of JavaScript on two strings: code-unit order
StrLess(a, b) ==
  \E n \in 1..(Len(b)) :
     /\ n <= Len(a) + 1
     /\ \A m \in 1..(n - 1) : a[m] = b[m]
     /\ \/ n = Len(a) + 1
        \/ (n <= Len(a) /\ CodeOf(a[n]) < CodeOf(b[n]))

(***************************************************************************)
(* String operations of the standard library, on character sequences.      *)
(***************************************************************************)
RECURSIVE TrimStart(_)
TrimStart(s) ==
  IF s # <<>> /\ Head(s) \in WS THEN TrimStart(Tail(s)) ELSE s

RECURSIVE TrimEnd(_)
TrimEnd(s) ==
  IF s # <<>> /\ s[Len(s)] \in WS THEN TrimEnd(SubSeq(s, 1, Len(s) - 1)) ELSE s

\* String.prototype.trim
Trim(s) == TrimEnd(TrimStart(s))

\* index of the first occurrence of character c at or after position from, 0 if none
IndexFrom(s, c, from) ==
  IF \E n \in from..Len(s) : s[n] = c
  THEN CHOOSE n \in from..Len(s) : s[n] = c /\ \A m \in from..(n - 1) : s[m] # c
  ELSE 0

\* text.split('\n')
RECURSIVE Split(_)
Split(s) ==
  LET nl == IndexFrom(s, "\n", 1)
  IN IF nl = 0 THEN <<s>>
     ELSE <<SubSeq(s, 1, nl - 1)>> \o Split(SubSeq(s, nl + 1, Len(s)))

\* Array.prototype.join(sep)
RECURSIVE Join(_, _)
Join(ss, sep) ==
  IF ss = <<>> THEN <<>>
  ELSE IF Len(ss) = 1 THEN ss[1]
  ELSE ss[1] \o sep \o Join(Tail(ss), sep)

\* Array.prototype.includes
Includes(seq, x) == \E n \in 1..Len(seq) : seq[n] = x

\* s.replace(/\s*\(.*?\)/, ''): the leftmost "(" that has a ")" after it,
\* together with the white space just before it, up to the first ")" after it
StripParen(s) ==
  LET open == IndexFrom(s, "(", 1)
      close == IF open = 0 THEN 0 ELSE IndexFrom(s, ")", open + 1)
      start == IF open = 0 THEN 0
               ELSE CHOOSE p \in 1..open :
                      /\ \A m \in p..(open - 1) : s[m] \in WS
                      /\ (p = 1 \/ s[p - 1] \notin WS)
  IN IF open = 0 \/ close = 0 THEN s
     ELSE SubSeq(s, 1, start - 1) \o SubSeq(s, close + 1, Len(s))

\* s.replace(/\s+/g, ' ')
RECURSIVE CollapseWS(_)
CollapseWS(s) ==
  IF s = <<>> THEN <<>>
  ELSE IF Head(s) \in WS
       THEN <<" ">> \o CollapseWS(TrimStart(s))
       ELSE <<Head(s)>> \o CollapseWS(Tail(s))

\* Array.prototype.sort() without a comparator: ascending code-unit order
RECURSIVE InsertSorted(_, _)
InsertSorted(x, sorted) ==
  IF sorted = <<>> THEN <<x>>
  ELSE IF StrLess(x, Head(sorted)) THEN <<x>> \o sorted
  ELSE <<Head(sorted)>> \o InsertSorted(x, Tail(sorted))

RECURSIVE Sort(_)
Sort(seq) ==
  IF seq = <<>> THEN <<>>
  ELSE InsertSorted(seq[Len(seq)], Sort(SubSeq(seq, 1, Len(seq) - 1)))

(***************************************************************************)
(* The line patterns of parseScreenplay.                                   *)
(***************************************************************************)
\* the alternatives (INT\.|EXT\.|INTERIOR|EXTERIOR), upper case
Slugs == {<<"I","N","T",".">>, <<"E","X","T",".">>,
          <<"I","N","T","E","R","I","O","R">>,
          <<"E","X","T","E","R","I","O","R">>}

StartsWithCI(s, w) ==
  /\ Len(s) >= Len(w)
  /\ \A n \in 1..Len(w) : ToUpperChar(s[n]) = w[n]

\* (INT\.|EXT\.|INTERIOR|EXTERIOR)\s+(.+) matched at the start of s, /i
SlugMatch(s) ==
  \E w \in Slugs :
     /\ StartsWithCI(s, w)
     /\ Len(s) >= Len(w) + 2
     /\ s[Len(w) + 1] \in WS

\* the lengths k for which the first k characters of s match \d+\s+
NumberPrefixes(s) ==
  {k \in 2..Len(s) :
     \E d \in 1..(k - 1) :
        /\ \A n \in 1..d : s[n] \in Digit
        /\ \A n \in (d + 1)..k : s[n] \in WS}

\* /^(?:\d+\s+)?(INT\.|EXT\.|INTERIOR|EXTERIOR)\s+(.+)/i
SceneMatch(t) ==
  \/ SlugMatch(t)
  \/ \E k \in NumberPrefixes(t) : SlugMatch(SubSeq(t, k + 1, Len(t)))

MaxCueLineLen == 200

MaxNameTail == 49

\* [A-Z\s'().-]
NameClass == Upper \cup WS \cup {"'", "(", ")", ".", "-"}

\* /^([A-Z][A-Z\s'().-]{1,49}):\s*(.*)/ : the class excludes ":", so group 1
\* ends at the first colon of the line
CharMatch(t) ==
  LET colon == IndexFrom(t, ":", 1)
  IN /\ colon >= 3
     /\ t[1] \in Upper
     /\ colon - 2 <= MaxNameTail
     /\ \A n \in 2..(colon - 1) : t[n] \in NameClass

\* charMatch[1]
CharMatchName(t) == SubSeq(t, 1, IndexFrom(t, ":", 1) - 1)

\* charMatch[2].trim()
CharMatchDialogue(t) == Trim(SubSeq(t, IndexFrom(t, ":", 1) + 1, Len(t)))

\* charMatch[1].trim().replace(/\s*\(.*?\)/, '').replace(/\s+/g, ' ').trim()
CueName(t) == Trim(CollapseWS(StripParen(Trim(CharMatchName(t)))))

\* the tokens of invalidPatterns, tested with /^(...)$/i
InvalidPatterns ==
  {<<"I","N","T">>, <<"E","X","T">>, <<"F","A","D","E">>,
   <<"C","U","T">>, <<"I","N","T","E","R","I","O","R">>,
   <<"E","X","T","E","R","I","O","R">>, <<"S","C","E","N","E">>,
   <<"T","H","E">>, <<"A","N","D">>, <<"O","R">>, <<"T","O">>,
   <<"I","N">>, <<"O","N">>, <<"A","T">>, <<"T","I","M","E">>,
   <<"P","L","A","C","E">>, <<"L","O","C","A","T","I","O","N">>,
   <<"C","O","N","T">>, <<"C","O","N","T","I","N","U","E","D">>,
   <<"M","O","R","E">>}

MinNameLen == 1

MaxNameLen == 50

\* character && character.length > 1 && character.length < 50
\*   && !invalidPatterns.test(character)
ValidCueName(c) ==
  /\ c # <<>>
  /\ Len(c) > MinNameLen
  /\ Len(c) < MaxNameLen
  /\ ToUpper(c) \notin InvalidPatterns

CommonWords ==
  {<<"T","H","E">>, <<"A","N","D">>, <<"O","R">>, <<"T","O">>,
   <<"I","N">>, <<"O","N">>, <<"A","T">>, <<"F","A","D","E">>,
   <<"C","U","T">>, <<"I","N","T">>, <<"E","X","T">>}

MinAloneLen == 2

MaxAloneLen == 30

\* /^[A-Z'\s]+$/.test(t) && t.length > 2 && t.length < 30
AloneMatch(t) ==
  /\ t # <<>>
  /\ \A n \in 1..Len(t) : t[n] \in Upper \cup {"'"} \cup WS
  /\ Len(t) > MinAloneLen
  /\ Len(t) < MaxAloneLen

\* /^[A-Z][A-Z\s'().]+$/.test(t) && t.length < 50
ExtendedMatch(t) ==
  /\ Len(t) >= 2
  /\ t[1] \in Upper
  /\ \A n \in 2..Len(t) : t[n] \in Upper \cup WS \cup {"'", "(", ")", "."}
  /\ Len(t) < MaxNameLen

\* trimmedLine.trim().replace(/\s*\(.*?\)/, '') of the two cue-only branches
BareName(t) == StripParen(Trim(t))

(***************************************************************************)
(* extractLocation and extractTimeOfDay.                                   *)
(***************************************************************************)
\* \w of the regular expressions
WordChar == Upper \cup Lower \cup Digit \cup {"_"}

\* the alternatives of the time-of-day pattern
TimeKeywords ==
  {<<"D","A","Y">>,
   <<"N","I","G","H","T">>,
   <<"M","O","R","N","I","N","G">>,
   <<"A","F","T","E","R","N","O","O","N">>,
   <<"E","V","E","N","I","N","G">>,
   <<"D","A","W","N">>,
   <<"D","U","S","K">>,
   <<"C","O","N","T","I","N","U","O","U","S">>,
   <<"L","A","T","E","R">>,
   <<"S","A","M","E"," ","T","I","M","E">>}

Unspecified == <<"U","N","S","P","E","C","I","F","I","E","D">>

\* \b(keyword)\b matches at position p of s, /i
KeywordAt(s, w, p) ==
  /\ p + Len(w) - 1 <= Len(s)
  /\ \A n \in 1..Len(w) : ToUpperChar(s[p + n - 1]) = w[n]
  /\ (p = 1 \/ s[p - 1] \notin WordChar)
  /\ (p + Len(w) - 1 = Len(s) \/ s[p + Len(w)] \notin WordChar)

\* the leftmost match of the pattern, upper-cased, else 'UNSPECIFIED'
ExtractTimeOfDay(sceneHeader) ==
  LET hits == {p \in 1..Len(sceneHeader) :
                 \E w \in TimeKeywords : KeywordAt(sceneHeader, w, p)}
  IN IF hits = {} THEN Unspecified
     ELSE LET first == CHOOSE p \in hits : \A q \in hits : p <= q
          IN CHOOSE w \in TimeKeywords : KeywordAt(sceneHeader, w, first)

\* (?:\s+-\s+|\s+\u2013\s+) matches at position p of s
SeparatorAt(s, p) ==
  \E k \in 1..(Len(s) - p) :
     /\ \A n \in p..(p + k - 1) : s[n] \in WS
     /\ s[p + k] \in {"-", EnDash}
     /\ p + k + 1 <= Len(s)
     /\ s[p + k + 1] \in WS

\* the matches of ^(?:slug)\s+(.+?)(?:separator|$) as pairs <<from, to>> of
\* group 1, for every length the greedy \s+ can be given
LocationGroups(s) ==
  {g \in (1..Len(s)) \X (1..Len(s)) :
     \E w \in Slugs :
        /\ StartsWithCI(s, w)
        /\ g[1] >= Len(w) + 2
        /\ \A n \in (Len(w) + 1)..(g[1] - 1) : s[n] \in WS
        /\ g[2] >= g[1]
        /\ (g[2] = Len(s) \/ SeparatorAt(s, g[2] + 1))}

\* match ? match[1].trim() : '' : the greedy \s+ takes the longest run that
\* still leaves a match, the lazy group the shortest end
ExtractLocation(sceneHeader) ==
  LET groups == LocationGroups(sceneHeader)
  IN IF groups = {} THEN <<>>
     ELSE LET from == CHOOSE a \in {g[1] : g \in groups} :
                        \A g \in groups : g[1] <= a
              to == CHOOSE b \in {g[2] : g \in {h \in groups : h[1] = from}} :
                      \A g \in {h \in groups : h[1] = from} : b <= g[2]
          IN Trim(SubSeq(sceneHeader, from, to))

(***************************************************************************)
(* analyzeCharacterInteractions, a function of the dialogue index.         *)
(***************************************************************************)
\* the distinct elements of seq in order of first occurrence: the insertion
\* order of a Set or of the keys of a Map
RECURSIVE Distinct(_)
Distinct(seq) ==
  IF seq = <<>> THEN <<>>
  ELSE LET front == Distinct(SubSeq(seq, 1, Len(seq) - 1))
           last == seq[Len(seq)]
       IN IF Includes(front, last) THEN front ELSE Append(front, last)

RECURSIVE SelectSeqBy(_, _)
SelectSeqBy(ds, sceneNum) ==
  IF ds = <<>> THEN <<>>
  ELSE IF Head(ds).sceneNumber = sceneNum
       THEN <<Head(ds)>> \o SelectSeqBy(Tail(ds), sceneNum)
       ELSE SelectSeqBy(Tail(ds), sceneNum)

\* variant: one pass per dialogue entry instead of one per scene number
SceneNumsPerEntry(ds) == [n \in 1..Len(ds) |-> ds[n].sceneNumber]

\* the keys of the Map sceneDialogues, in insertion order
SceneNums(ds) == Distinct([n \in 1..Len(ds) |-> ds[n].sceneNumber])

\* variant: the speakers of the whole index, not grouped by scene number
SceneCharactersUngrouped(ds, sceneNum) ==
  Distinct([n \in 1..Len(ds) |-> ds[n].characters])

\* [...new Set(dialogues.map(d => d.characters))] for one scene number
SceneCharacters(ds, sceneNum) ==
  LET group == SelectSeqBy(ds, sceneNum)
  IN Distinct([n \in 1..Len(group) |-> group[n].characters])

\* variant: the key is built without sort()
InteractionKeyUnsorted(char1, char2) == Join(<<char1, char2>>, <<"|">>)

\* [char1, char2].sort().join('|')
InteractionKey(char1, char2) == Join(Sort(<<char1, char2>>), <<"|">>)

\* the position of key in the Map interactions, 0 when it has no such key
KeyIndex(map, key) ==
  IF \E n \in 1..Len(map) : map[n].key = key
  THEN CHOOSE n \in 1..Len(map) : map[n].key = key
  ELSE 0

\* variant: the record stores the pair sorted, as the key does
NewInteractionSorted(char1, char2) ==
  [character1 |-> Sort(<<char1, char2>>)[1],
   character2 |-> Sort(<<char1, char2>>)[2],
   scenes |-> <<>>,
   interactionCount |-> 0]

\* the record set under a key that the Map does not have yet
NewInteraction(char1, char2) ==
  [character1 |-> char1,
   character2 |-> char2,
   scenes |-> <<>>,
   interactionCount |-> 0]

\* the body of the inner loop for one pair (char1, char2) of scene sceneNum
RecordPair(map, char1, char2, sceneNum) ==
  LET key == InteractionKey(char1, char2)
      withKey == IF KeyIndex(map, key) = 0
                 THEN Append(map, [key |-> key,
                                   value |-> NewInteraction(char1, char2)])
                 ELSE map
      at == KeyIndex(withKey, key)
      old == withKey[at].value
  IN [withKey EXCEPT ![at].value =
        [old EXCEPT !.scenes = Append(old.scenes, sceneNum),
                    !.interactionCount = old.interactionCount + 1]]

\* the loop over j = from .. length-1 for a fixed first index
RECURSIVE InnerLoop(_, _, _, _, _)
InnerLoop(map, sceneChars, first, from, sceneNum) ==
  IF from > Len(sceneChars) THEN map
  ELSE InnerLoop(RecordPair(map, sceneChars[first], sceneChars[from], sceneNum),
                 sceneChars, first, from + 1, sceneNum)

\* the loop over i
RECURSIVE OuterLoop(_, _, _, _)
OuterLoop(map, sceneChars, first, sceneNum) ==
  IF first > Len(sceneChars) THEN map
  ELSE OuterLoop(InnerLoop(map, sceneChars, first, first + 1, sceneNum),
                 sceneChars, first + 1, sceneNum)

\* sceneDialogues.forEach(...)
RECURSIVE ForEachScene(_, _, _)
ForEachScene(map, ds, sceneNums) ==
  IF sceneNums = <<>> THEN map
  ELSE ForEachScene(OuterLoop(map, SceneCharacters(ds, Head(sceneNums)), 1,
                              Head(sceneNums)),
                    ds, Tail(sceneNums))

\* this.interactions = Array.from(interactions.values())
AnalyzeCharacterInteractions(ds) ==
  LET map == ForEachScene(<<>>, ds, SceneNums(ds))
  IN [n \in 1..Len(map) |-> map[n].value]

(***************************************************************************)
(* The inputs: texts of at most MaxLines lines of ScriptLines, and texts   *)
(* of at most MaxDialogueLines lines of SpeechLines (one heading and three *)
(* speakers), and texts of at most MaxEdgeLines lines of EdgeLines (lines  *)
(* at the edges of the cue rules), joined by line feeds; and the absent    *)
(* text.                                                                   *)
(***************************************************************************)
ScriptLines ==
  {<<"I","N","T","."," ","A"," ","-"," ","D","A","Y">>,
   <<"2"," ","E","X","T","."," ","B">>,
   <<"A","L",":"," ","a">>,
   <<"B","O",":"," ","b">>,
   <<"B","O"," ","(","X",")",":"," ","c">>,
   <<"C","Y","D">>,
   <<"H","i",".">>,
   <<>>,
   <<" ","A","L",":">>}

SpeechLines ==
  {<<"I","N","T","."," ","A">>,
   <<"A","L",":"," ","a">>,
   <<"B","O",":"," ","b">>,
   <<"C","Y",":"," ","c">>}

EdgeLines ==
  {<<"I","N","T","."," ","A">>,
   <<"F","A","D","E"," ","I","N",":">>,
   <<"T","H","E",":"," ","x">>,
   <<"N","o","t","e",":"," ","x">>,
   <<"C","Y"," "," ","D">>,
   <<"H","i",".">>,
   <<"I","N">>,
   <<"A","B"," ","(","X",")"," "," ","C">>,
   <<"I","N","T","."," ","B",":"," ","c">>,
   <<"E","X","T","E","R","I","O","R"," ","X">>}

LineSeqs(lineSet, maxLen) == UNION {[1..k -> lineSet] : k \in 1..maxLen}

InputTexts ==
  {Join(ls, <<"\n">>) : ls \in LineSeqs(ScriptLines, MaxLines)
                              \cup LineSeqs(SpeechLines, MaxDialogueLines)
                              \cup LineSeqs(EdgeLines, MaxEdgeLines)}

NullText == [isNull |-> TRUE, chars |-> <<>>]

(***************************************************************************)
(* Files: the uploaded PDF of a request and the report files of a script.  *)
(* A directory is a function from paths to file contents.                  *)
(***************************************************************************)
NoFiles == [path \in {} |-> <<>>]

\* fs.writeFileSync, and the write of an upload by multer: creates or replaces
WriteFile(dir, path, content) ==
  [q \in DOMAIN dir \cup {path} |-> IF q = path THEN content ELSE dir[q]]

\* fs.unlinkSync where the file exists
Unlink(dir, path) == [q \in DOMAIN dir \ {path} |-> dir[q]]

PdfNameA == <<"a",".","p","d","f">>

PdfNameB == <<"b",".","P","D","F">>

\* file.originalname of the uploads
OriginalNames == {PdfNameA, PdfNameB}

\* file.originalname.replace(/[^a-zA-Z0-9.-]/g, '_')
Sanitize(name) ==
  [n \in 1..Len(name) |->
     IF name[n] \in Upper \cup Lower \cup Digit \cup {".", "-"} THEN name[n] ELSE "_"]

\* the path multer stores an upload at: `${timestamp}_${originalName}` in
\* the uploads directory
UploadPath(timestamp, originalname) == <<timestamp, Sanitize(originalname)>>

UnknownScript == <<"u","n","k","n","o","w","n","_","s","c","r","i","p","t">>

\* originalFilename?.replace(/\.pdf$/i, '') || 'unknown_script'
ScriptNameOf(originalname) ==
  LET n == Len(originalname)
      stem == IF n >= 4 /\ ToUpper(SubSeq(originalname, n - 3, n)) = <<".", "P", "D", "F">>
              THEN SubSeq(originalname, 1, n - 4)
              ELSE originalname
  IN IF stem = <<>> THEN UnknownScript ELSE stem

\* the four report files of an analysis
ReportKinds == {"ALL_SCENES_COMPLETE.txt", "ALL_DIALOGUES_COMPLETE.txt",
                "ALL_CHARACTERS_COMPLETE.txt", "CHARACTER_INTERACTIONS.txt"}

\* path.join(this.outputDir, kind), outputDir being `${scriptName}_outputs`
ReportPath(script, kind) == <<script, kind>>

\* no request: the analyzer is used on its own
NoRequest == [origin |-> "", originalname |-> <<>>, status |-> 0]


(***************************************************************************)
(* State after the constructor, with the text that extractPdfText hands to *)
(* runCompleteAnalysis; the locals of parseScreenplay hold their initial   *)
(* values until it starts.                                                 *)
(***************************************************************************)
Init ==
  /\ text \in {NullText} \cup {[isNull |-> FALSE, chars |-> c] : c \in InputTexts}
  /\ pc = "start"
  /\ lines = <<>>
  /\ i = 0
  /\ currentScene = <<>>
  /\ currentSceneAction = <<>>
  /\ currentSceneCharacters = <<>>
  /\ currentSceneDialogues = <<>>
  /\ sceneNumber = 0
  /\ scenes = <<>>
  /\ dialogues = <<>>
  /\ characters = <<>>
  /\ movieCharacters = <<>>
  /\ interactions = <<>>
  /\ self = 1
  /\ scriptName = ScriptNameOf(PdfNameA)
  /\ pdfPath = UploadPath(0, PdfNameA)
  /\ result = <<>>
  /\ req = NoRequest
  /\ now = 0
  /\ uploads = NoFiles
  /\ outFiles = NoFiles
  /\ parked = <<>>
  /\ nodeEnv = "development"

\* variant: only an absent text is refused
NoTextExtractedNullOnly == text.isNull

\* !text || text.length === 0
NoTextExtracted == text.isNull \/ Len(text.chars) = 0

\* runCompleteAnalysis up to the start of the parsing loop: the text check,
\* then text.split('\n') and the locals of parseScreenplay
RunCompleteAnalysis ==
  /\ pc = "start"
  /\ IF NoTextExtracted
     THEN /\ pc' = "failed"
          /\ lines' = lines
     ELSE /\ pc' = "parse"
          /\ lines' = Split(text.chars)
  /\ i' = 0
  /\ currentScene' = <<>>
  /\ currentSceneAction' = <<>>
  /\ currentSceneCharacters' = <<>>
  /\ currentSceneDialogues' = <<>>
  /\ sceneNumber' = 0
  /\ UNCHANGED <<text, scenes, dialogues, characters, movieCharacters,
                 interactions>>
  /\ UNCHANGED <<self, scriptName, pdfPath, result, req, sharedVars>>

\* variant: the scene left open at the end of input is not saved
SceneIsOpenInLoop == currentScene # <<>> /\ i < Len(lines)

\* if (currentScene), before the loop's push and before the final push
SceneIsOpen == currentScene # <<>>

\* variant: the counter is not incremented at close
ClosedSceneNumberStale == sceneNumber

\* sceneNumber++ : the number given to the scene being closed
ClosedSceneNumber == sceneNumber + 1

\* variant: the action text is reset only when a scene is closed
NewSceneActionAfterClose == IF SceneIsOpen THEN <<>> ELSE currentSceneAction

\* currentSceneAction = "" when a heading starts a new scene
NewSceneAction == <<>>

\* the record pushed to this.scenes when a scene is closed
SceneRecord(number) ==
  [sceneNumber |-> number,
   Scene_Names |-> currentScene,
   Scene_action |-> Trim(currentSceneAction),
   Scene_Characters |-> currentSceneCharacters,
   Scene_Dialogue |-> currentSceneDialogues,
   Contents |-> Trim(currentSceneAction) \o <<"\n">>
                \o Join(currentSceneDialogues, <<" ">>),
   location |-> ExtractLocation(currentScene),
   timeOfDay |-> ExtractTimeOfDay(currentScene)]

\* Set.prototype.add, and the includes/push pair on the scene's list
\* variant: the dialogue is recorded whether or not it has text
HasDialogueAlways(dialogue) == TRUE

\* if (dialogue)
HasDialogue(dialogue) == dialogue # <<>>

\* variant: the closed scene is put in front of the output (unshift)
PushSceneFront(list, record) == <<record>> \o list

\* this.scenes.push({...})
PushScene(list, record) == Append(list, record)

AddOnce(seq, x) == IF Includes(seq, x) THEN seq ELSE Append(seq, x)

\* trimmedLine.includes(':') && trimmedLine.length < 200
ColonBranch(t) == IndexFrom(t, ":", 1) # 0 /\ Len(t) < MaxCueLineLen

\* variant: the colon test comes before the scene heading test
ClassifyColonFirst(t) ==
  IF ColonBranch(t) THEN "colon"
  ELSE IF SceneMatch(t) THEN "heading"
  ELSE IF AloneMatch(t) THEN "alone"
  ELSE IF ExtendedMatch(t) THEN "extended"
  ELSE "action"

\* the branch taken for a non-empty trimmed line
Classify(t) ==
  IF SceneMatch(t) THEN "heading"
  ELSE IF ColonBranch(t) THEN "colon"
  ELSE IF AloneMatch(t) THEN "alone"
  ELSE IF ExtendedMatch(t) THEN "extended"
  ELSE "action"

\* the part of a name before its first white space
FirstWord(name) ==
  IF \E n \in 1..Len(name) : name[n] \in WS
  THEN SubSeq(name, 1, (CHOOSE n \in 1..Len(name) :
                          name[n] \in WS /\ \A m \in 1..(n - 1) : name[m] \notin WS) - 1)
  ELSE name

\* variant: only the first word of an accepted name is registered
RegisterFirstWord(character) ==
  /\ characters' = AddOnce(characters, FirstWord(character))
  /\ currentSceneCharacters' = AddOnce(currentSceneCharacters, FirstWord(character))

\* variant: the name is pushed to the scene's list without the includes test
RegisterWithoutTest(character) ==
  /\ characters' = AddOnce(characters, character)
  /\ currentSceneCharacters' = Append(currentSceneCharacters, character)

\* this.characters.add(character) and the push to currentSceneCharacters
RegisterCharacter(character) ==
  /\ characters' = AddOnce(characters, character)
  /\ currentSceneCharacters' = AddOnce(currentSceneCharacters, character)

\* variant: the entry carries the count of closed scenes itself
DialogueSceneNumberClosed == sceneNumber

\* sceneNumber + 1 of the pushed dialogue entry
DialogueSceneNumber == sceneNumber + 1

\* one iteration of the for loop over lines
\* variant: the line number counts the non-blank lines only
SourceLineNumberOfNonBlank ==
  Cardinality({n \in 1..(i + 1) : Trim(lines[n]) # <<>>})

\* lineNumber: i + 1
SourceLineNumber == i + 1

\* variant: a blank line advances the index once more before the continue
NextIndexAfterBlank ==
  IF Trim(lines[i + 1]) = <<>> /\ i + 2 <= Len(lines) THEN i + 2 ELSE i + 1

\* i++ of the for loop: the number of lines read so far
NextIndex == i + 1

ParseLine ==
  /\ pc = "parse"
  /\ i < Len(lines)
  /\ i' = NextIndex
  /\ LET trimmedLine == Trim(lines[i + 1])
         branch == IF trimmedLine = <<>> THEN "blank" ELSE Classify(trimmedLine)
     IN CASE branch = "blank" ->
               UNCHANGED <<currentScene, currentSceneAction,
                           currentSceneCharacters, currentSceneDialogues,
                           sceneNumber, scenes, dialogues, characters>>
          [] branch = "heading" ->
               /\ IF SceneIsOpen
                  THEN /\ sceneNumber' = ClosedSceneNumber
                       /\ scenes' = PushScene(scenes, SceneRecord(ClosedSceneNumber))
                  ELSE UNCHANGED <<sceneNumber, scenes>>
               /\ currentScene' = trimmedLine
               /\ currentSceneAction' = NewSceneAction
               /\ currentSceneCharacters' = <<>>
               /\ currentSceneDialogues' = <<>>
               /\ UNCHANGED <<dialogues, characters>>
          [] branch = "colon" ->
               /\ IF CharMatch(trimmedLine) /\ ValidCueName(CueName(trimmedLine))
                  THEN LET character == CueName(trimmedLine)
                           dialogue == CharMatchDialogue(trimmedLine)
                       IN /\ RegisterCharacter(character)
                          /\ IF HasDialogue(dialogue)
                             THEN /\ currentSceneDialogues' =
                                       Append(currentSceneDialogues, dialogue)
                                  /\ dialogues' = Append(dialogues,
                                       [sceneNumber |-> DialogueSceneNumber,
                                        characters |-> character,
                                        Character_dialogue |-> dialogue,
                                        lineNumber |-> SourceLineNumber])
                             ELSE UNCHANGED <<currentSceneDialogues, dialogues>>
                  ELSE UNCHANGED <<characters, currentSceneCharacters,
                                   currentSceneDialogues, dialogues>>
               /\ UNCHANGED <<currentScene, currentSceneAction, sceneNumber,
                              scenes>>
          [] branch = "alone" ->
               /\ LET character == BareName(trimmedLine)
                  IN IF character # <<>> /\ character \notin CommonWords
                     THEN RegisterCharacter(character)
                     ELSE UNCHANGED <<characters, currentSceneCharacters>>
               /\ UNCHANGED <<currentScene, currentSceneAction,
                              currentSceneDialogues, sceneNumber, scenes,
                              dialogues>>
          [] branch = "extended" ->
               /\ LET character == BareName(trimmedLine)
                  IN IF character # <<>> /\ Len(character) > MinNameLen
                     THEN RegisterCharacter(character)
                     ELSE UNCHANGED <<characters, currentSceneCharacters>>
               /\ UNCHANGED <<currentScene, currentSceneAction,
                              currentSceneDialogues, sceneNumber, scenes,
                              dialogues>>
          [] branch = "action" ->
               /\ currentSceneAction' = currentSceneAction \o <<" ">> \o trimmedLine
               /\ UNCHANGED <<currentScene, currentSceneCharacters,
                              currentSceneDialogues, sceneNumber, scenes,
                              dialogues, characters>>
  /\ UNCHANGED <<text, pc, lines, movieCharacters, interactions>>
  /\ UNCHANGED <<self, scriptName, pdfPath, result, req, sharedVars>>

\* Array.prototype.filter(char => char.length > 1 && char.length < 50)
RECURSIVE FilterNames(_)
FilterNames(seq) ==
  IF seq = <<>> THEN <<>>
  ELSE IF Len(Head(seq)) > MinNameLen /\ Len(Head(seq)) < MaxNameLen
       THEN <<Head(seq)>> \o FilterNames(Tail(seq))
       ELSE FilterNames(Tail(seq))

\* variant: the registry is output in insertion order, without sort()
MovieCharactersUnsorted(registry) == FilterNames(registry)

\* variant: only the characters listed in some scene are output
MovieCharactersOfScenes(registry) ==
  Sort(FilterNames(SelectSeq(registry,
         LAMBDA name : \E k \in 1..Len(scenes) :
                          Includes(scenes[k].Scene_Characters, name))))

\* Array.from(this.characters).filter(...).sort()
MovieCharacters(registry) == Sort(FilterNames(registry))

\* the rest of parseScreenplay after the loop: the last scene, the
\* characters output and analyzeCharacterInteractions
ParseFinish ==
  /\ pc = "parse"
  /\ i = Len(lines)
  /\ IF SceneIsOpen
     THEN /\ sceneNumber' = ClosedSceneNumber
          /\ scenes' = PushScene(scenes, SceneRecord(ClosedSceneNumber))
     ELSE UNCHANGED <<sceneNumber, scenes>>
  /\ movieCharacters' = MovieCharacters(characters)
  /\ interactions' = AnalyzeCharacterInteractions(dialogues)
  /\ pc' = "parsed"
  /\ UNCHANGED <<text, lines, i, currentScene, currentSceneAction,
                 currentSceneCharacters, currentSceneDialogues, dialogues,
                 characters>>
  /\ UNCHANGED <<self, scriptName, pdfPath, result, req, sharedVars>>

\* the content of a report file: the entities it lists, and the analyzer
\* that wrote it (the header's timestamp is left out)
Report(items) == [by |-> self, items |-> items]

\* saveAllScenes, saveAllDialogues, saveAllCharacters, saveInteractions:
\* four writeFileSync calls into the output directory of the script name
SaveAllReports ==
  /\ pc = "parsed"
  /\ pc' = "saved"
  /\ outFiles' =
       WriteFile(
         WriteFile(
           WriteFile(
             WriteFile(outFiles,
                       ReportPath(scriptName, "ALL_SCENES_COMPLETE.txt"),
                       Report(scenes)),
             ReportPath(scriptName, "ALL_DIALOGUES_COMPLETE.txt"),
             Report(dialogues)),
           ReportPath(scriptName, "ALL_CHARACTERS_COMPLETE.txt"),
           Report(movieCharacters)),
         ReportPath(scriptName, "CHARACTER_INTERACTIONS.txt"),
         Report(interactions))
  /\ UNCHANGED <<text, lines, i, currentScene, currentSceneAction,
                 currentSceneCharacters, currentSceneDialogues, sceneNumber,
                 scenes, dialogues, characters, movieCharacters, interactions,
                 self, scriptName, pdfPath, result, req>>
  /\ UNCHANGED <<now, uploads, parked, nodeEnv>>

\* Math.round(a / b) for a >= 0, b > 0
RoundDiv(a, b) == (2 * a + b) \div (2 * b)

\* numbers.reduce((sum, x) => sum + x, 0)
RECURSIVE SumOver(_)
SumOver(numbers) ==
  IF numbers = <<>> THEN 0 ELSE Head(numbers) + SumOver(Tail(numbers))

\* scene.Scene_Characters?.length || 0, scene by scene
SceneCharacterCounts == [k \in 1..Len(scenes) |-> Len(scenes[k].Scene_Characters)]

\* scene.Contents?.length || 0, scene by scene
SceneContentLengths == [k \in 1..Len(scenes) |-> Len(scenes[k].Contents)]

\* scene.Scene_Dialogue?.length || 0, scene by scene
SceneDialogueCounts == [k \in 1..Len(scenes) |-> Len(scenes[k].Scene_Dialogue)]

\* variant: the dialogues are counted scene by scene
GenerateSummaryPerScene(timestamp) ==
  [scriptName |-> scriptName,
   totalScenes |-> Len(scenes),
   totalCharacters |-> Len(movieCharacters),
   totalDialogues |-> SumOver(SceneDialogueCounts),
   totalInteractions |-> Len(interactions),
   analysisTimestamp |-> timestamp,
   averageDialoguesPerScene |->
     IF Len(scenes) > 0 THEN RoundDiv(100 * Len(dialogues), Len(scenes)) ELSE 0,
   charactersPerScene |->
     IF Len(scenes) > 0
     THEN RoundDiv(100 * SumOver(SceneCharacterCounts), Len(scenes))
     ELSE 0]

\* generateSummary; the two averages are kept in hundredths
GenerateSummary(timestamp) ==
  [scriptName |-> scriptName,
   totalScenes |-> Len(scenes),
   totalCharacters |-> Len(movieCharacters),
   totalDialogues |-> Len(dialogues),
   totalInteractions |-> Len(interactions),
   analysisTimestamp |-> timestamp,
   averageDialoguesPerScene |->
     IF Len(scenes) > 0 THEN RoundDiv(100 * Len(dialogues), Len(scenes)) ELSE 0,
   charactersPerScene |->
     IF Len(scenes) > 0
     THEN RoundDiv(100 * SumOver(SceneCharacterCounts), Len(scenes))
     ELSE 0]

\* the object runCompleteAnalysis returns
AnalysisResult(summary, totalTime) ==
  [totalScenes |-> Len(scenes),
   totalCharacters |-> Len(movieCharacters),
   totalDialogues |-> Len(dialogues),
   scenes |-> scenes,
   characters |-> movieCharacters,
   dialogues |-> dialogues,
   interactions |-> interactions,
   summary |->
     summary @@
     [processingTimeMs |-> totalTime,
      averageSceneLength |->
        IF Len(scenes) > 0
        THEN RoundDiv(SumOver(SceneContentLengths), Len(scenes))
        ELSE 0]]

\* runCompleteAnalysis from generateSummary to its return: new Date() reads
\* the clock, which may have advanced; performance.now() - startTime is some
\* elapsed time
ReturnResult ==
  /\ pc = "saved"
  /\ pc' = "done"
  /\ \E timestamp \in now..MaxTime, totalTime \in 0..MaxTime :
        /\ now' = timestamp
        /\ result' = <<AnalysisResult(GenerateSummary(timestamp), totalTime)>>
  /\ UNCHANGED <<text, lines, i, currentScene, currentSceneAction,
                 currentSceneCharacters, currentSceneDialogues, sceneNumber,
                 scenes, dialogues, characters, movieCharacters, interactions,
                 self, scriptName, pdfPath, req>>
  /\ UNCHANGED <<uploads, outFiles, parked, nodeEnv>>

Next ==
  \/ RunCompleteAnalysis
  \/ ParseLine
  \/ ParseFinish
  \/ SaveAllReports
  \/ ReturnResult

Spec == Init /\ [][Next]_vars

(***************************************************************************)
(* The server: POST /api/analyze-pdf.  multer stores the upload, the       *)
(* handler builds an analyzer for it, awaits runCompleteAnalysis, removes   *)
(* the upload and responds.  Two requests are in flight; the process runs  *)
(* one of them at a time and can turn to the other one only where the      *)
(* running one waits: for the upload to be written, for the handler to be   *)
(* called, for pdf() inside extractPdfText.                                 *)
(***************************************************************************)
\* what pdf() extracts from the uploaded documents
ServerTexts ==
  {<<>>,
   <<"A","L",":"," ","a">>,
   <<"I","N","T","."," ","A","\n","A","L",":"," ","a","\n","B","O",":"," ","b">>,
   <<"I","N","T","."," ","B","\n","B","O",":"," ","b">>}

\* no Origin header
NoOrigin == ""

\* allowedOrigins when ALLOWED_ORIGINS is not set
AllowedOrigins ==
  {"http://localhost:3000", "http://localhost:3001", "http://localhost:80",
   "http://localhost", "http://localhost:8080", "http://localhost:8081",
   "http://localhost:8082", "https://think-ai-rosy.vercel.app/",
   "https://think-ai-rosy.vercel.app"}

\* the Origin headers of the requests: none, a listed one, one not listed
Origins == {NoOrigin, "http://localhost:3000", "http://other.example"}

\* process.env.NODE_ENV
NodeEnvs == {"production", "development"}

\* the requests that can arrive: the Origin header, and the name and the
\* content of the upload
Requests ==
  {[origin |-> o, originalname |-> name,
    content |-> [isNull |-> FALSE, chars |-> c], status |-> 0] :
     o \in Origins, name \in OriginalNames, c \in ServerTexts}

\* the analyzer and request that are running, as the process keeps them
\* while the other request runs
Context ==
  [text |-> text,
   pc |-> pc,
   lines |-> lines,
   i |-> i,
   currentScene |-> currentScene,
   currentSceneAction |-> currentSceneAction,
   currentSceneCharacters |-> currentSceneCharacters,
   currentSceneDialogues |-> currentSceneDialogues,
   sceneNumber |-> sceneNumber,
   scenes |-> scenes,
   dialogues |-> dialogues,
   characters |-> characters,
   movieCharacters |-> movieCharacters,
   interactions |-> interactions,
   self |-> self,
   scriptName |-> scriptName,
   pdfPath |-> pdfPath,
   result |-> result,
   req |-> req]

\* a request that has arrived and that no middleware has seen yet
Arrived(id, request) ==
  [text |-> NullText, pc |-> "arrived", lines |-> <<>>, i |-> 0,
   currentScene |-> <<>>, currentSceneAction |-> <<>>,
   currentSceneCharacters |-> <<>>, currentSceneDialogues |-> <<>>,
   sceneNumber |-> 0, scenes |-> <<>>, dialogues |-> <<>>, characters |-> <<>>,
   movieCharacters |-> <<>>, interactions |-> <<>>,
   self |-> id, scriptName |-> <<>>, pdfPath |-> <<>>, result |-> <<>>,
   req |-> request]

ServerInit ==
  /\ \E first \in Requests, second \in Requests :
        /\ req = first
        /\ parked = <<Arrived(2, second)>>
  /\ nodeEnv \in NodeEnvs
  /\ text = NullText
  /\ pc = "arrived"
  /\ lines = <<>>
  /\ i = 0
  /\ currentScene = <<>>
  /\ currentSceneAction = <<>>
  /\ currentSceneCharacters = <<>>
  /\ currentSceneDialogues = <<>>
  /\ sceneNumber = 0
  /\ scenes = <<>>
  /\ dialogues = <<>>
  /\ characters = <<>>
  /\ movieCharacters = <<>>
  /\ interactions = <<>>
  /\ self = 1
  /\ scriptName = <<>>
  /\ pdfPath = <<>>
  /\ result = <<>>
  /\ now = 0
  /\ uploads = NoFiles
  /\ outFiles = NoFiles

\* the origin function of the cors middleware calls back without an error
OriginAllowed(origin) ==
  \/ origin = NoOrigin
  \/ origin \in AllowedOrigins
  \/ nodeEnv = "production"

\* the cors middleware: the request goes on to multer, or the error
\* 'Not allowed by CORS' reaches the error handling middleware, which
\* responds 403 CORS_ERROR
CorsCheck ==
  /\ pc = "arrived"
  /\ IF OriginAllowed(req.origin)
     THEN /\ pc' = "upload"
          /\ req' = req
     ELSE /\ pc' = "responded"
          /\ req' = [req EXCEPT !.status = 403]
  /\ UNCHANGED <<text, lines, i, currentScene, currentSceneAction,
                 currentSceneCharacters, currentSceneDialogues, sceneNumber,
                 scenes, dialogues, characters, movieCharacters, interactions,
                 self, scriptName, pdfPath, result>>
  /\ UNCHANGED sharedVars

\* multer's diskStorage: the file name is made of Date.now() and the
\* sanitized original name, and the upload is written under it
StoreUpload ==
  /\ pc = "upload"
  /\ pc' = "handler"
  /\ \E timestamp \in now..MaxTime :
        /\ now' = timestamp
        /\ pdfPath' = UploadPath(timestamp, req.originalname)
        /\ uploads' = WriteFile(uploads, UploadPath(timestamp, req.originalname),
                                req.content)
  /\ UNCHANGED <<text, lines, i, currentScene, currentSceneAction,
                 currentSceneCharacters, currentSceneDialogues, sceneNumber,
                 scenes, dialogues, characters, movieCharacters, interactions,
                 self, scriptName, result, req>>
  /\ UNCHANGED <<outFiles, parked, nodeEnv>>

\* variant: the dialogue index is one array shared by all analyzers
NewDialoguesShared == IF parked = <<>> THEN <<>> ELSE parked[1].dialogues

\* this.dialogues = [] of the constructor
NewDialogues == <<>>

\* the handler up to its await: the script name, new FilmScriptAnalyzer,
\* and runCompleteAnalysis up to the await of pdf() in extractPdfText, which
\* has read the file by then; a missing file makes extractPdfText throw
HandleRequest ==
  /\ pc = "handler"
  /\ scriptName' = ScriptNameOf(req.originalname)
  /\ scenes' = <<>>
  /\ dialogues' = NewDialogues
  /\ characters' = <<>>
  /\ movieCharacters' = <<>>
  /\ interactions' = <<>>
  /\ IF pdfPath \in DOMAIN uploads
     THEN /\ text' = uploads[pdfPath]
          /\ pc' = "start"
     ELSE /\ text' = text
          /\ pc' = "failed"
  /\ UNCHANGED <<lines, i, currentScene, currentSceneAction,
                 currentSceneCharacters, currentSceneDialogues, sceneNumber,
                 self, pdfPath, result, req>>
  /\ UNCHANGED sharedVars

\* try { fs.unlinkSync(path) } catch: the file is removed when it exists,
\* and the ENOENT of a missing file is caught
UnlinkQuietly(dir, path) == IF path \in DOMAIN dir THEN Unlink(dir, path) ELSE dir

\* the handler after runCompleteAnalysis has returned: the upload is
\* removed, then res.json(response)
RespondSuccess ==
  /\ pc = "done"
  /\ pc' = "responded"
  /\ uploads' = UnlinkQuietly(uploads, pdfPath)
  /\ req' = [req EXCEPT !.status = 200]
  /\ UNCHANGED <<text, lines, i, currentScene, currentSceneAction,
                 currentSceneCharacters, currentSceneDialogues, sceneNumber,
                 scenes, dialogues, characters, movieCharacters, interactions,
                 self, scriptName, pdfPath, result>>
  /\ UNCHANGED <<now, outFiles, parked, nodeEnv>>

\* variant: the catch block responds without removing the upload
UploadsAfterErrorKept == uploads

\* the cleanup of the catch block
UploadsAfterError == UnlinkQuietly(uploads, pdfPath)

\* the catch block of the handler: the upload is removed, then
\* res.status(500).json(...)
RespondError ==
  /\ pc = "failed"
  /\ pc' = "responded"
  /\ uploads' = UploadsAfterError
  /\ req' = [req EXCEPT !.status = 500]
  /\ UNCHANGED <<text, lines, i, currentScene, currentSceneAction,
                 currentSceneCharacters, currentSceneDialogues, sceneNumber,
                 scenes, dialogues, characters, movieCharacters, interactions,
                 self, scriptName, pdfPath, result>>
  /\ UNCHANGED <<now, outFiles, parked, nodeEnv>>

\* where the running request waits and the event loop can run the other
AwaitPoints == {"arrived", "upload", "handler", "start", "responded"}

\* the event loop turns to the other request
Switch ==
  /\ parked # <<>>
  /\ pc \in AwaitPoints
  /\ parked[1].pc # "responded"
  /\ parked' = <<Context>>
  /\ text' = parked[1].text
  /\ pc' = parked[1].pc
  /\ lines' = parked[1].lines
  /\ i' = parked[1].i
  /\ currentScene' = parked[1].currentScene
  /\ currentSceneAction' = parked[1].currentSceneAction
  /\ currentSceneCharacters' = parked[1].currentSceneCharacters
  /\ currentSceneDialogues' = parked[1].currentSceneDialogues
  /\ sceneNumber' = parked[1].sceneNumber
  /\ scenes' = parked[1].scenes
  /\ dialogues' = parked[1].dialogues
  /\ characters' = parked[1].characters
  /\ movieCharacters' = parked[1].movieCharacters
  /\ interactions' = parked[1].interactions
  /\ self' = parked[1].self
  /\ scriptName' = parked[1].scriptName
  /\ pdfPath' = parked[1].pdfPath
  /\ result' = parked[1].result
  /\ req' = parked[1].req
  /\ UNCHANGED <<now, uploads, outFiles, nodeEnv>>

ServerNext ==
  \/ CorsCheck
  \/ StoreUpload
  \/ HandleRequest
  \/ RunCompleteAnalysis
  \/ ParseLine
  \/ ParseFinish
  \/ SaveAllReports
  \/ ReturnResult
  \/ RespondSuccess
  \/ RespondError
  \/ Switch

ServerSpec == ServerInit /\ [][ServerNext]_vars

(***************************************************************************)
(* The input as the properties see it.                                     *)
(***************************************************************************)
\* parseScreenplay has returned
ParseDone == pc \in {"parsed", "saved", "done"}

TrimmedLine(n) == Trim(lines[n])

\* line n is a Scene-Heading line
IsHeadingLine(n) == TrimmedLine(n) # <<>> /\ SceneMatch(TrimmedLine(n))

\* line n is a Character-Cue-With-Dialogue line with non-empty dialogue text
IsDialogueLine(n) ==
  LET t == TrimmedLine(n)
  IN /\ t # <<>>
     /\ ~SceneMatch(t)
     /\ ColonBranch(t)
     /\ CharMatch(t)
     /\ ValidCueName(CueName(t))
     /\ CharMatchDialogue(t) # <<>>

\* the heading lines among the first n lines
HeadingsUpTo(n) == {m \in 1..n : IsHeadingLine(m)}

\* the position of the k-th heading line
HeadingPos(k) ==
  CHOOSE n \in 1..Len(lines) : IsHeadingLine(n) /\ Cardinality(HeadingsUpTo(n)) = k

\* the dialogue texts of the dialogue lines strictly between lines from and to
RECURSIVE DialogueTextsBetween(_, _)
DialogueTextsBetween(from, to) ==
  IF from + 1 >= to THEN <<>>
  ELSE (IF IsDialogueLine(from + 1)
        THEN <<CharMatchDialogue(TrimmedLine(from + 1))>> ELSE <<>>)
       \o DialogueTextsBetween(from + 1, to)

\* C1: after parseScreenplay the k-th scene of the output has sceneNumber k,
\* so the numbers are exactly 1..totalScenes, increasing by 1 from 1.
C1_SceneNumbersContiguous ==
  ParseDone => \A k \in 1..Len(scenes) : scenes[k].sceneNumber = k

C1_Witness == ParseDone /\ Len(scenes) >= 3

\* C2: after the run every dialogue entry has 1 <= sceneNumber <= totalScenes.
C2_DialogueRefersToScene ==
  ParseDone =>
    \A n \in 1..Len(dialogues) :
       1 <= dialogues[n].sceneNumber /\ dialogues[n].sceneNumber <= Len(scenes)

\* C3: a dialogue line read before any scene has been opened creates no
\* entry in the dialogue index and is in no scene's dialogue lines.
C3_PreSceneDialogueDropped ==
  ParseDone =>
    \A n \in 1..Len(lines) :
       (IsDialogueLine(n) /\ HeadingsUpTo(n) = {}) =>
          /\ \A d \in 1..Len(dialogues) : dialogues[d].lineNumber # n
          /\ \A k \in 1..Len(scenes) :
                scenes[k].Scene_Dialogue =
                  DialogueTextsBetween(HeadingPos(k),
                     IF k < Len(scenes) THEN HeadingPos(k + 1) ELSE Len(lines) + 1)

\* C4: one scene per heading line, the k-th scene carrying the k-th heading
\* line; a scene holds the dialogue read between its heading and the next
\* heading, or the end of input for the last scene.
C4_OneScenePerHeading ==
  ParseDone =>
    /\ Len(scenes) = Cardinality(HeadingsUpTo(Len(lines)))
    /\ \A k \in 1..Len(scenes) :
          /\ scenes[k].Scene_Names = TrimmedLine(HeadingPos(k))
          /\ scenes[k].Scene_Dialogue =
               DialogueTextsBetween(HeadingPos(k),
                  IF k < Len(scenes) THEN HeadingPos(k + 1) ELSE Len(lines) + 1)

\* two scenes, the first closed by a heading and the last by the end of
\* input, both with dialogue
C4_Witness ==
  /\ ParseDone
  /\ Len(scenes) >= 2
  /\ scenes[1].Scene_Dialogue # <<>>
  /\ scenes[Len(scenes)].Scene_Dialogue # <<>>
  /\ ~IsHeadingLine(Len(lines))

\* C5: a dialogue line read while a scene is open gets, at append time,
\* sceneNumber = closed scenes + 1, which is the number of headings read so
\* far; it is in the open scene's dialogue lines, and the scene later closes
\* with that number, that heading and that dialogue line.
C5_DialogueNumberedAsOpenScene ==
  \A d \in 1..Len(dialogues) :
     LET entry == dialogues[d]
         opened == HeadingsUpTo(entry.lineNumber)
         k == Cardinality(opened)
     IN opened # {} =>
          /\ entry.sceneNumber = k
          /\ IF k <= Len(scenes)
             THEN /\ scenes[k].sceneNumber = k
                  /\ scenes[k].Scene_Names = TrimmedLine(HeadingPos(k))
                  /\ Includes(scenes[k].Scene_Dialogue, entry.Character_dialogue)
             ELSE /\ k = Len(scenes) + 1
                  /\ pc = "parse"
                  /\ currentScene = TrimmedLine(HeadingPos(k))
                  /\ Includes(currentSceneDialogues, entry.Character_dialogue)

\* dialogue in the second scene, after the first scene has closed
C5_Witness ==
  /\ ParseDone
  /\ \E d \in 1..Len(dialogues) :
        /\ dialogues[d].sceneNumber = 2
        /\ Cardinality(HeadingsUpTo(dialogues[d].lineNumber)) = 2
        /\ Includes(scenes[2].Scene_Dialogue, dialogues[d].Character_dialogue)

\* C6: the characters output is strictly ascending in code-unit order, hence
\* sorted and without duplicates.
C6_CharactersSortedUnique ==
  ParseDone =>
    \A a, b \in 1..Len(movieCharacters) :
       a < b => StrLess(movieCharacters[a], movieCharacters[b])

\* names registered out of order, one of them more than once
C6_Witness ==
  /\ ParseDone
  /\ Len(movieCharacters) >= 2
  /\ movieCharacters # characters
  /\ Len(dialogues) > Len(characters)

\* the two characters of an interaction record, as a set
PairOf(e) == {e.character1, e.character2}

\* the first dialogue entry of character c under scene number n, 0 if none
FirstSpoken(c, n) ==
  LET said == {d \in 1..Len(dialogues) :
                 dialogues[d].characters = c /\ dialogues[d].sceneNumber = n}
  IN IF said = {} THEN 0 ELSE CHOOSE d \in said : \A o \in said : d <= o

\* C7: no interaction pairs a character with itself, and no unordered pair
\* has two records (neither the same order nor the reverse).
C7_PairsDistinctUnique ==
  ParseDone =>
    /\ \A a \in 1..Len(interactions) :
          interactions[a].character1 # interactions[a].character2
    /\ \A a, b \in 1..Len(interactions) :
          a # b => PairOf(interactions[a]) # PairOf(interactions[b])

\* a pair that spoke in one order in one scene and in the reverse order in
\* another
C7_Witness ==
  /\ ParseDone
  /\ \E a \in 1..Len(interactions) :
        LET e == interactions[a]
        IN \E m, n \in Range(e.scenes) :
              /\ m # n
              /\ FirstSpoken(e.character1, m) < FirstSpoken(e.character2, m)
              /\ FirstSpoken(e.character2, n) < FirstSpoken(e.character1, n)

\* C8: every interaction record has character1 < character2.
C8_PairStoredCanonically ==
  ParseDone =>
    \A a \in 1..Len(interactions) :
       StrLess(interactions[a].character1, interactions[a].character2)

\* C8 as the code has it: character1 is the one of the pair who spoke first
\* in the first scene the record lists, character2 the other; the record is
\* in canonical order exactly when the smaller name spoke first there.
C8_PairStoredInSpeakingOrder ==
  ParseDone =>
    \A a \in 1..Len(interactions) :
       LET e == interactions[a]
       IN /\ e.scenes # <<>>
          /\ FirstSpoken(e.character1, e.scenes[1]) > 0
          /\ FirstSpoken(e.character1, e.scenes[1])
               < FirstSpoken(e.character2, e.scenes[1])

\* a record whose larger name spoke first
C8_Witness ==
  /\ ParseDone
  /\ \E a \in 1..Len(interactions) :
        StrLess(interactions[a].character2, interactions[a].character1)

\* the speakers and the scene numbers of the dialogue index
Speakers == {dialogues[d].characters : d \in 1..Len(dialogues)}

SpokenSceneNumbers == {dialogues[d].sceneNumber : d \in 1..Len(dialogues)}

\* C9: {X,Y} has an interaction listing scene number n exactly when both X
\* and Y have a dialogue entry with scene number n; two speakers under one
\* scene number give one record with count 1 and scenes [n].
C9_InteractionIffCoSpeakers ==
  ParseDone =>
    /\ \A a \in 1..Len(interactions) :
          /\ PairOf(interactions[a]) \subseteq Speakers
          /\ Range(interactions[a].scenes) \subseteq SpokenSceneNumbers
    /\ \A x, y \in Speakers : \A n \in SpokenSceneNumbers :
          x # y =>
            ((\E a \in 1..Len(interactions) :
                 /\ PairOf(interactions[a]) = {x, y}
                 /\ n \in Range(interactions[a].scenes))
             <=> (FirstSpoken(x, n) > 0 /\ FirstSpoken(y, n) > 0))
    /\ (Cardinality(Speakers) = 2 /\ Cardinality(SpokenSceneNumbers) = 1) =>
          /\ Len(interactions) = 1
          /\ interactions[1].interactionCount = 1
          /\ \A n \in SpokenSceneNumbers : interactions[1].scenes = <<n>>

\* three speakers, two of them sharing a scene and the third in another
\* scene only
C9_Witness ==
  /\ ParseDone
  /\ Cardinality(Speakers) = 3
  /\ Len(interactions) = 1
  /\ interactions[1].interactionCount = 1

\* C10: interactionCount is the length of the scenes list, and no scene
\* number is listed twice.
C10_CountIsDistinctScenes ==
  ParseDone =>
    \A a \in 1..Len(interactions) :
       LET e == interactions[a]
       IN /\ e.interactionCount = Len(e.scenes)
          /\ \A m, n \in 1..Len(e.scenes) : m # n => e.scenes[m] # e.scenes[n]

\* a pair that shares two scenes
C10_Witness ==
  /\ ParseDone
  /\ \E a \in 1..Len(interactions) :
        /\ interactions[a].interactionCount = 2
        /\ Len(interactions[a].scenes) = 2

(***************************************************************************)
(* What one line does, as the properties see it.                           *)
(***************************************************************************)
\* the name the trimmed line t registers as a character, <<>> when none
LineRegisters(t) ==
  IF t = <<>> THEN <<>>
  ELSE CASE Classify(t) = "colon" ->
              IF CharMatch(t) /\ ValidCueName(CueName(t)) THEN CueName(t) ELSE <<>>
         [] Classify(t) = "alone" ->
              IF BareName(t) \notin CommonWords THEN BareName(t) ELSE <<>>
         [] Classify(t) = "extended" ->
              IF Len(BareName(t)) > MinNameLen THEN BareName(t) ELSE <<>>
         [] OTHER -> <<>>

\* the line the next iteration of the loop reads, trimmed
NextLine == Trim(lines[i + 1])

\* the next iteration reads a line for which P holds
Reading == pc = "parse" /\ i < Len(lines)

\* the action text the code accumulates from the lines strictly between
\* lines from and to: the lines of the Action/Other branch
RECURSIVE ActionTextBetween(_, _)
ActionTextBetween(from, to) ==
  IF from + 1 >= to THEN <<>>
  ELSE (IF TrimmedLine(from + 1) # <<>> /\ Classify(TrimmedLine(from + 1)) = "action"
        THEN <<" ">> \o TrimmedLine(from + 1) ELSE <<>>)
       \o ActionTextBetween(from + 1, to)

\* the names registered by the lines strictly between lines from and to,
\* without repetition, in order
RECURSIVE NamesBetween(_, _)
NamesBetween(from, to) ==
  IF from + 1 >= to THEN <<>>
  ELSE LET front == NamesBetween(from, to - 1)
           name == LineRegisters(TrimmedLine(to - 1))
       IN IF name = <<>> THEN front ELSE AddOnce(front, name)

\* the line after the last line of scene k: the next heading or the end
SceneEnd(k) == IF k < Len(scenes) THEN HeadingPos(k + 1) ELSE Len(lines) + 1

FadeInLine == <<"F","A","D","E"," ","I","N",":">>

FadeName == <<"F","A","D","E">>

InName == <<"I","N">>

\* C14: processing a line "FADE IN:" adds neither FADE nor IN to the
\* registry or to the open scene's character list, and closes no scene.
C14_FadeInRegistersNoFadeNorIn ==
  [][(Reading /\ NextLine = FadeInLine) =>
       /\ \A name \in {FadeName, InName} :
             /\ Includes(characters', name) => Includes(characters, name)
             /\ Includes(currentSceneCharacters', name) =>
                  Includes(currentSceneCharacters, name)
       /\ scenes' = scenes]_vars

\* a "FADE IN:" line has just been processed, in an open scene
C14_Witness ==
  /\ pc = "parse"
  /\ i >= 2
  /\ TrimmedLine(i) = FadeInLine
  /\ currentScene # <<>>
  /\ ~Includes(characters, FadeName)
  /\ ~Includes(characters, InName)

\* t enters the cue-with-dialogue rule and matches the cue pattern, but its
\* normalized name is rejected
RejectedCue(t) ==
  /\ t # <<>>
  /\ ~SceneMatch(t)
  /\ ColonBranch(t)
  /\ CharMatch(t)
  /\ ~ValidCueName(CueName(t))

\* C15: a line whose cue name is rejected is appended to the open scene's
\* action text.
C15_RejectedCueBecomesAction ==
  [][(Reading /\ RejectedCue(NextLine) /\ SceneIsOpen) =>
       currentSceneAction' = currentSceneAction \o <<" ">> \o NextLine]_vars

\* the action text of the lines strictly between lines from and to if every
\* non-empty line that is no heading and registers no character were appended
RECURSIVE UnregisteredTextBetween(_, _)
UnregisteredTextBetween(from, to) ==
  IF from + 1 >= to THEN <<>>
  ELSE (IF /\ TrimmedLine(from + 1) # <<>>
           /\ ~SceneMatch(TrimmedLine(from + 1))
           /\ LineRegisters(TrimmedLine(from + 1)) = <<>>
        THEN <<" ">> \o TrimmedLine(from + 1) ELSE <<>>)
       \o UnregisteredTextBetween(from + 1, to)

\* C16: the action text of a scene is its non-empty lines that are no
\* heading and register no character, space-joined in document order.
C16_UnregisteredLinesBecomeAction ==
  ParseDone =>
    \A k \in 1..Len(scenes) :
       scenes[k].Scene_action = Trim(UnregisteredTextBetween(HeadingPos(k), SceneEnd(k)))

\* trimmed, white space collapsed, no parenthetical aside, 2 to 49 characters
Normalized(name) ==
  /\ Trim(name) = name
  /\ CollapseWS(name) = name
  /\ StripParen(name) = name
  /\ Len(name) >= 2
  /\ Len(name) <= 49

\* C17: every name in the character registry is in normalized form.
C17_RegistryNormalized ==
  \A n \in 1..Len(characters) : Normalized(characters[n])

\* C18: a scene record holds only what was read between its heading and the
\* next one (or the end): nothing read before the first heading is in any
\* scene's action text, character list or dialogue lines, and there is one
\* scene per heading, none for the text before the first.
C18_PreSceneTextInNoScene ==
  ParseDone =>
    /\ Len(scenes) = Cardinality(HeadingsUpTo(Len(lines)))
    /\ \A k \in 1..Len(scenes) :
          /\ scenes[k].Scene_action =
               Trim(ActionTextBetween(HeadingPos(k), SceneEnd(k)))
          /\ scenes[k].Scene_Characters = NamesBetween(HeadingPos(k), SceneEnd(k))
          /\ scenes[k].Scene_Dialogue =
               DialogueTextsBetween(HeadingPos(k), SceneEnd(k))

\* action text and a cue with dialogue before the first heading, and content
\* in the scene that follows
C18_Witness ==
  /\ ParseDone
  /\ Len(scenes) >= 1
  /\ HeadingPos(1) >= 3
  /\ ActionTextBetween(0, HeadingPos(1)) # <<>>
  /\ NamesBetween(0, HeadingPos(1)) # <<>>
  /\ scenes[1].Scene_action # <<>>

(***************************************************************************)
(* The run as a whole: refusal of an empty text, the returned result.      *)
(***************************************************************************)
\* the report files this analyzer has written
OwnReports == {path \in DOMAIN outFiles : outFiles[path].by = self}

\* C12: a run whose extracted text is absent or zero-length fails at the
\* text check and goes no further: it never parses, its scenes, dialogues,
\* characters and interactions stay empty, and it writes no report file.
C12_EmptyTextFailsBeforeParsing ==
  (text.isNull \/ Len(text.chars) = 0) =>
     /\ pc \in {"start", "failed"}
     /\ scenes = <<>>
     /\ dialogues = <<>>
     /\ characters = <<>>
     /\ movieCharacters = <<>>
     /\ interactions = <<>>
     /\ result = <<>>
     /\ OwnReports = {}

\* a text that is present but has no character has been refused
C12_Witness ==
  /\ pc = "failed"
  /\ ~text.isNull
  /\ text.chars = <<>>

\* no line of the text is a Scene-Heading line
NoHeadingLine == \A n \in 1..Len(lines) : ~IsHeadingLine(n)

BothReturned == result # <<>> /\ parked # <<>> /\ parked[1].result # <<>>

\* the two analyses ran on identical text
SameText == text = parked[1].text

\* the fields of the summary that do not come from the text: the script
\* name given to the constructor and the two clock readings
NotFromText == {"scriptName", "analysisTimestamp", "processingTimeMs"}

\* a result without the fields of its summary that do not come from the text
FromText(r) ==
  [r EXCEPT !.summary = [f \in (DOMAIN r.summary) \ NotFromText |-> r.summary[f]]]

OwnDialogueLines == {n \in 1..Len(lines) : IsDialogueLine(n)}

OwnNames ==
  {LineRegisters(TrimmedLine(n)) : n \in 1..Len(lines)} \ {<<>>}

\* the result holds the entities of the text of its own analysis, no other
ResultOfOwnText(r) ==
  /\ Len(r.scenes) = Cardinality(HeadingsUpTo(Len(lines)))
  /\ \A k \in 1..Len(r.scenes) : r.scenes[k].Scene_Names = TrimmedLine(HeadingPos(k))
  /\ Len(r.dialogues) = Cardinality(OwnDialogueLines)
  /\ \A d \in 1..Len(r.dialogues) :
        /\ r.dialogues[d].lineNumber \in OwnDialogueLines
        /\ r.dialogues[d].characters = CueName(TrimmedLine(r.dialogues[d].lineNumber))
  /\ Range(r.characters) = OwnNames

\* C19 as stated: whatever the interleaving of two analyses, the result of
\* each holds exactly the entities of its own text, and no step of one
\* analysis replaces or removes a report file the other analysis wrote.
C19_AnalysesShareNoState ==
  [][/\ (pc = "done" => ResultOfOwnText(result[1]))
     /\ self' = self =>
          \A path \in DOMAIN outFiles :
             outFiles[path].by # self =>
                /\ path \in DOMAIN outFiles'
                /\ outFiles'[path] = outFiles[path]]_vars

\* C20: the step that sends the response of a request, with status 200 or
\* 500, leaves no file at the path its upload was stored at.
C20_UploadRemovedBeforeResponse ==
  [][(self' = self /\ req.status = 0 /\ req'.status # 0) =>
        pdfPath \notin DOMAIN uploads']_vars

\* one request has been answered 200 and the other one, whose document had
\* no text, 500; each had its own upload, and both uploads are gone
C20_Witness ==
  /\ parked # <<>>
  /\ req.status = 500
  /\ ~text.isNull
  /\ parked[1].req.status = 200
  /\ pdfPath # parked[1].pdfPath
  /\ uploads = NoFiles

\* C21 as stated: in either environment mode, the step that handles a
\* request whose Origin header is present and not in the allowed list
\* answers it 403 CORS_ERROR, and the request goes no further.
C21_ForeignOriginRejected ==
  [][(pc = "arrived" /\ self' = self
        /\ req.origin # NoOrigin /\ req.origin \notin AllowedOrigins) =>
       (pc' = "responded" /\ req'.status = 403)]_vars

(***************************************************************************)
(* The order of the branches.                                              *)
(***************************************************************************)
\* what the iteration that reads the next line does
OpensScene == currentScene' # currentScene \/ scenes' # scenes

RegistersOrSpeaks ==
  \/ Range(characters') # Range(characters)
  \/ ~(Range(currentSceneCharacters') \subseteq Range(currentSceneCharacters))
  \/ Len(dialogues') > Len(dialogues)

AppendsAction == Len(currentSceneAction') > Len(currentSceneAction)

HeadingWithColon == <<"I","N","T","."," ","B",":"," ","c">>

HeadingInCapitals == <<"E","X","T","E","R","I","O","R"," ","X">>

\* C22: a line that matches the heading pattern only opens a scene: the
\* registry and the dialogue index are unchanged and the new scene starts
\* with the line as heading and with empty action text, characters and
\* dialogue lines, also when the line has a colon or is all capitals; and a
\* non-empty line does at most one of: open a scene, register a character
\* (with or without dialogue), add to the action text.
C22_HeadingFirstOneRulePerLine ==
  [][(Reading /\ NextLine # <<>>) =>
       /\ SceneMatch(NextLine) =>
            /\ currentScene' = NextLine
            /\ characters' = characters
            /\ dialogues' = dialogues
            /\ currentSceneAction' = <<>>
            /\ currentSceneCharacters' = <<>>
            /\ currentSceneDialogues' = <<>>
       /\ ~(OpensScene /\ RegistersOrSpeaks)
       /\ ~(OpensScene /\ AppendsAction)
       /\ ~(RegistersOrSpeaks /\ AppendsAction)]_vars

\* a heading with a colon has just been read after an all-capitals heading
\* and opened the second scene, with nobody registered
C22_Witness ==
  /\ pc = "parse"
  /\ i >= 2
  /\ Trim(lines[i]) = HeadingWithColon
  /\ Trim(lines[i - 1]) = HeadingInCapitals
  /\ currentScene = HeadingWithColon
  /\ Len(scenes) = 1
  /\ characters = <<>>
  /\ dialogues = <<>>

\* C23: no step changes a scene that is in the scenes output: the output
\* only grows at its end, so the lines read after a scene was closed change
\* the open scene only.
C23_ClosedScenesNeverChange ==
  [][/\ Len(scenes') >= Len(scenes)
     /\ \A k \in 1..Len(scenes) : scenes'[k] = scenes[k]]_vars

\* a first scene was closed, then a cue and an action line were read into
\* the second one, which has been closed in its turn
C23_Witness ==
  /\ ParseDone
  /\ Len(scenes) = 2
  /\ scenes[1].Scene_Characters = <<>>
  /\ scenes[1].Scene_action = <<>>
  /\ scenes[2].Scene_Characters # <<>>
  /\ scenes[2].Scene_action # <<>>

(***************************************************************************)
(* The location of a heading.                                              *)
(***************************************************************************)
\* the heading without its scene number, if it has one
Unnumbered(h) ==
  IF SlugMatch(h) THEN h
  ELSE LET k == CHOOSE n \in NumberPrefixes(h) : SlugMatch(SubSeq(h, n + 1, Len(h)))
       IN SubSeq(h, k + 1, Len(h))

\* what follows the slug and the white space after it
AfterSlug(h) ==
  LET w == CHOOSE v \in Slugs : StartsWithCI(h, v)
      rest == SubSeq(h, Len(w) + 1, Len(h))
  IN TrimStart(rest)

\* the text up to the first dash or en-dash separator, or all of it
UpToSeparator(r) ==
  LET seps == {p \in 2..Len(r) : SeparatorAt(r, p)}
  IN IF seps = {} THEN Trim(r)
     ELSE Trim(SubSeq(r, 1, (CHOOSE p \in seps : \A q \in seps : p <= q) - 1))

\* C24 as stated: the location of every scene is the text of its heading
\* after the slug, up to the first dash or en-dash separator or the end of
\* the line, whether or not the heading starts with a scene number.
C24_LocationFollowsSlug ==
  ParseDone =>
    \A k \in 1..Len(scenes) :
       scenes[k].location = UpToSeparator(AfterSlug(Unnumbered(scenes[k].Scene_Names)))

(***************************************************************************)
(* Cues without dialogue.                                                  *)
(***************************************************************************)
\* the trimmed line t is a cue with an accepted name and nothing after the
\* colon
IsSilentCue(t) ==
  /\ ~SceneMatch(t)
  /\ ColonBranch(t)
  /\ CharMatch(t)
  /\ ValidCueName(CueName(t))
  /\ CharMatchDialogue(t) = <<>>

\* the trimmed line t is handled by the cue-alone or the cue-extended rule
IsCueOnly(t) ==
  /\ ~SceneMatch(t)
  /\ ~ColonBranch(t)
  /\ AloneMatch(t) \/ ExtendedMatch(t)

\* C25: a cue line with nothing after the colon puts its character in the
\* registry and in the character list of the scene being read and adds
\* nothing to the scene's dialogue lines or to the dialogue index; a
\* cue-alone or cue-extended line registers its name the same way and adds
\* no dialogue either; and no entry of the dialogue index has empty text.
C25_SilentCuesRegisterOnly ==
  [][(Reading /\ NextLine # <<>>) =>
       /\ IsSilentCue(NextLine) =>
            /\ Includes(characters', CueName(NextLine))
            /\ Includes(currentSceneCharacters', CueName(NextLine))
            /\ dialogues' = dialogues
            /\ currentSceneDialogues' = currentSceneDialogues
       /\ IsCueOnly(NextLine) =>
            /\ LineRegisters(NextLine) # <<>> =>
                 /\ Includes(characters', LineRegisters(NextLine))
                 /\ Includes(currentSceneCharacters', LineRegisters(NextLine))
            /\ dialogues' = dialogues
            /\ currentSceneDialogues' = currentSceneDialogues
       /\ \A d \in 1..Len(dialogues') : dialogues'[d].Character_dialogue # <<>>]_vars

\* in one scene, a cue with nothing after its colon and a name on a line of
\* its own were registered, and another cue spoke
C25_Witness ==
  /\ ParseDone
  /\ Len(scenes) = 1
  /\ Len(scenes[1].Scene_Characters) = 3
  /\ Len(dialogues) = 1
  /\ \E n \in 1..Len(lines) : IsSilentCue(TrimmedLine(n))
  /\ \E n \in 1..Len(lines) : IsCueOnly(TrimmedLine(n))

(***************************************************************************)
(* The summary.                                                            *)
(***************************************************************************)
\* C26: in the returned result, the four totals of the summary are the
\* lengths of the scenes, characters, dialogues and interactions of the
\* result, and with no scene the three averages are 0.
C26_SummaryCountsOutputs ==
  pc = "done" =>
    LET r == result[1]
    IN /\ r.summary.totalScenes = Len(r.scenes)
       /\ r.summary.totalCharacters = Len(r.characters)
       /\ r.summary.totalDialogues = Len(r.dialogues)
       /\ r.summary.totalInteractions = Len(r.interactions)
       /\ r.summary.totalScenes = 0 =>
            /\ r.summary.averageDialoguesPerScene = 0
            /\ r.summary.charactersPerScene = 0
            /\ r.summary.averageSceneLength = 0

\* a result without scenes whose other three totals are not zero
C26_Witness ==
  /\ pc = "done"
  /\ result[1].summary.totalScenes = 0
  /\ result[1].summary.totalCharacters >= 2
  /\ result[1].summary.totalDialogues >= 2
  /\ result[1].summary.totalInteractions >= 1

(***************************************************************************)
(* Termination of the parsing pass.                                        *)
(***************************************************************************)
\* C27: parseScreenplay ends after as many iterations as the text has
\* lines: while the pass runs, the number of lines read is at most the number
\* of lines, every step of the pass either reads exactly the next line or,
\* with every line read, ends the pass, and nothing else happens in it.
C27_ParseTerminates ==
  [][pc = "parse" =>
       /\ i <= Len(lines)
       /\ \/ pc' = "parse" /\ i' = i + 1 /\ i' <= Len(lines)
          \/ pc' = "parsed" /\ i = Len(lines) /\ i' = i]_vars

\* the pass has reached its end on a text of several lines, a blank one
\* among them, with scenes, names, dialogue and an interaction emitted
C27_Witness ==
  /\ pc = "parsed"
  /\ i = Len(lines)
  /\ Len(lines) >= 4
  /\ \E n \in 1..Len(lines) : TrimmedLine(n) = <<>>
  /\ scenes # <<>>
  /\ interactions # <<>>

(***************************************************************************)
(* The dialogue index, the interactions and the scenes.                    *)
(***************************************************************************)
\* the texts of the entries of the dialogue index with scene number n, in
\* index order
RECURSIVE IndexTextsOf(_, _)
IndexTextsOf(ds, n) ==
  IF ds = <<>> THEN <<>>
  ELSE (IF Head(ds).sceneNumber = n THEN <<Head(ds).Character_dialogue>> ELSE <<>>)
       \o IndexTextsOf(Tail(ds), n)

\* C28 as stated: for every scene of the output, the texts of the entries
\* of the dialogue index with the scene's number, in index order, are the
\* scene's dialogue lines; so the index has as many entries as the scenes
\* have dialogue lines.
C28_IndexMatchesSceneDialogue ==
  ParseDone =>
    /\ \A k \in 1..Len(scenes) :
          IndexTextsOf(dialogues, scenes[k].sceneNumber) = scenes[k].Scene_Dialogue
    /\ Len(dialogues) = SumOver(SceneDialogueCounts)

\* C29 as stated: every scene number in the scenes list of an interaction
\* is the number of a scene of the output, and that scene lists both
\* characters of the interaction.
C29_InteractionScenesExist ==
  ParseDone =>
    \A a \in 1..Len(interactions) :
       \A n \in Range(interactions[a].scenes) :
          \E k \in 1..Len(scenes) :
             /\ scenes[k].sceneNumber = n
             /\ Includes(scenes[k].Scene_Characters, interactions[a].character1)
             /\ Includes(scenes[k].Scene_Characters, interactions[a].character2)

\* C30 as stated: no word of the stoplist of the cue-alone rule is ever in
\* the character registry.
C30_StoplistNeverRegistered ==
  \A word \in CommonWords : ~Includes(characters, word)

(***************************************************************************)
(* The names of the outputs.                                               *)
(***************************************************************************)
\* C31: when the pass has ended, the character of every entry of the
\* dialogue index, every name of every scene's character list and both
\* characters of every interaction are in the characters output, and no
\* scene's character list has a name twice.
C31_NamesAreOutputCharacters ==
  ParseDone =>
    /\ \A d \in 1..Len(dialogues) : Includes(movieCharacters, dialogues[d].characters)
    /\ \A k \in 1..Len(scenes) :
          /\ \A c \in 1..Len(scenes[k].Scene_Characters) :
                Includes(movieCharacters, scenes[k].Scene_Characters[c])
          /\ \A c, e \in 1..Len(scenes[k].Scene_Characters) :
                c # e => scenes[k].Scene_Characters[c] # scenes[k].Scene_Characters[e]
    /\ \A a \in 1..Len(interactions) :
          /\ Includes(movieCharacters, interactions[a].character1)
          /\ Includes(movieCharacters, interactions[a].character2)

\* a scene with two speakers, one of whom spoke twice, and an interaction
C31_Witness ==
  /\ ParseDone
  /\ Len(scenes) >= 1
  /\ Len(interactions) >= 1
  /\ \E k \in 1..Len(scenes) :
        /\ Len(scenes[k].Scene_Characters) = 2
        /\ Len(scenes[k].Scene_Dialogue) >= 3
  /\ Len(movieCharacters) >= 2

(***************************************************************************)
(* The order of the dialogue index.                                        *)
(***************************************************************************)
\* C32: along the dialogue index the line numbers increase strictly and the
\* scene numbers never decrease, and the line number of an entry is the
\* position, counted from 1 with the blank lines, of the line of the text
\* that holds the entry's cue and dialogue.
C32_IndexInDocumentOrder ==
  /\ \A a, b \in 1..Len(dialogues) :
        a < b =>
          /\ dialogues[a].lineNumber < dialogues[b].lineNumber
          /\ dialogues[a].sceneNumber <= dialogues[b].sceneNumber
  /\ \A d \in 1..Len(dialogues) :
        /\ dialogues[d].lineNumber \in 1..Len(lines)
        /\ IsDialogueLine(dialogues[d].lineNumber)
        /\ CueName(TrimmedLine(dialogues[d].lineNumber)) = dialogues[d].characters
        /\ CharMatchDialogue(TrimmedLine(dialogues[d].lineNumber)) =
             dialogues[d].Character_dialogue

\* a scene with two dialogue entries, read after a blank line: the entries
\* are numbered 3 and 4
C32_Witness ==
  /\ ParseDone
  /\ Len(scenes) = 1
  /\ Len(dialogues) = 2
  /\ dialogues[1].lineNumber = 3
  /\ dialogues[2].lineNumber = 4
  /\ \E n \in 1..2 : TrimmedLine(n) = <<>>

(***************************************************************************)
(* The paths of the uploads.                                               *)
(***************************************************************************)
\* the request that waits has stored its upload and is not answered yet
ParkedInFlight == parked # <<>> /\ parked[1].pc \in {"handler", "start"}

\* the running request has stored its upload and is not answered yet
RunningInFlight == pc \notin {"arrived", "upload", "responded"}

\* C33 as stated: two requests that have both stored their upload and are
\* not answered yet have different upload paths, and no step of one request
\* removes or replaces the stored upload of the other while that one is
\* still to be analysed or answered.
C33_UploadPathsDistinct ==
  /\ []((RunningInFlight /\ ParkedInFlight) => pdfPath # parked[1].pdfPath)
  /\ [][(self' = self /\ ParkedInFlight /\ parked[1].pdfPath \in DOMAIN uploads) =>
          /\ parked[1].pdfPath \in DOMAIN uploads'
          /\ uploads'[parked[1].pdfPath] = uploads[parked[1].pdfPath]]_vars

====
